---- MODULE Spec2Model ----
(***************************************************************************)
(* Multi-stage retrieval of academic-rag-assistant (src/rag_utils.py):     *)
(* coarse vector recall, LLM relevance reranking with a score threshold,   *)
(* top-k selection and adjacent-page context completion, together with    *)
(* ingestion and clearing of the vector store.                            *)
(*                                                                         *)
(* Texts are sequences of one-character strings.  Scores are kept in       *)
(* tenths (Scale), so 5.9 is 59 and the threshold 6 is 60.                 *)
(***************************************************************************)
EXTENDS Integers, Sequences, FiniteSets, TLC

VARIABLES store, calls, status

vars == <<store, calls, status>>

(***************************************************************************)
(* Bounds of the model.                                                    *)
(***************************************************************************)
MaxCoarse == 3      \* largest top_k_coarse a caller passes
MaxFinal == 2       \* largest top_k_final a caller passes
MaxSnap == 2        \* longest snapshot handed to complete_adjacent_pages alone
MaxSel == 2         \* longest finalist list handed to complete_adjacent_pages alone

(***************************************************************************)
(* Program constants.                                                      *)
(***************************************************************************)
Threshold == 6      \* rag_utils.py:106  score >= 6
ExcerptLen == 200   \* rag_utils.py:139  text[:200]
FirstPage == 1      \* rag_utils.py:36   enumerate(reader.pages, start=1)
Scale == 10         \* one decimal digit of a score is kept

Min(a, b) == IF a < b THEN a ELSE b

\* python  s[:n]  for n >= 0
Take(s, n) == SubSeq(s, 1, Min(n, Len(s)))

(***************************************************************************)
(* Texts of pages.                                                         *)
(***************************************************************************)
ShortText == <<"x", "y", "z">>
OtherText == <<"u", "v">>
LongText == [i \in 1..(ExcerptLen + 1) |-> IF i <= ExcerptLen THEN "w" ELSE "!"]
Blank == <<>>

(***************************************************************************)
(* float(response["response"].strip())                                     *)
(***************************************************************************)
Whitespace == {" ", "\n", "\t"}
Digits == {"0", "1", "2", "3", "4", "5", "6", "7", "8", "9"}

DigitVal(ch) == CHOOSE d \in 0..9 : ToString(d) = ch

RECURSIVE LStrip(_)
LStrip(s) ==
    IF s # <<>> /\ Head(s) \in Whitespace THEN LStrip(Tail(s)) ELSE s

RECURSIVE RStrip(_)
RStrip(s) ==
    IF s # <<>> /\ s[Len(s)] \in Whitespace
    THEN RStrip(SubSeq(s, 1, Len(s) - 1))
    ELSE s

\* str.strip()
Strip(s) == RStrip(LStrip(s))

AllDigits(s) == \A i \in 1..Len(s) : s[i] \in Digits

RECURSIVE IntVal(_)
IntVal(s) ==
    IF s = <<>> THEN 0
    ELSE IntVal(SubSeq(s, 1, Len(s) - 1)) * 10 + DigitVal(s[Len(s)])

PointAt(s) == {i \in 1..Len(s) : s[i] = "."}

ParseError == [kind |-> "error", val |-> 0]
NaN == [kind |-> "nan", val |-> 0]
Num(v) == [kind |-> "num", val |-> v]

\* an unsigned decimal literal with at most one fractional digit, in tenths
ParseUnsigned(s) ==
    IF s = <<>> THEN ParseError
    ELSE IF PointAt(s) = {} THEN
        IF AllDigits(s) THEN Num(IntVal(s) * Scale) ELSE ParseError
    ELSE IF Cardinality(PointAt(s)) > 1 THEN ParseError
    ELSE LET p == CHOOSE i \in PointAt(s) : TRUE
             ip == SubSeq(s, 1, p - 1)
             fp == SubSeq(s, p + 1, Len(s))
         IN  IF ~AllDigits(ip) \/ ~AllDigits(fp) \/ (ip = <<>> /\ fp = <<>>)
                \/ Len(fp) > 1
             THEN ParseError
             ELSE Num(IntVal(ip) * Scale + IntVal(fp))

\* float(): raises ValueError (ParseError) on a malformed literal
ParseFloat(s) ==
    LET t == Strip(s) IN
    IF t = <<"n", "a", "n">> THEN NaN
    ELSE IF t # <<>> /\ Head(t) = "-" THEN
        LET u == ParseUnsigned(Tail(t)) IN
        IF u.kind = "num" THEN Num(0 - u.val) ELSE u
    ELSE IF t # <<>> /\ Head(t) = "+" THEN ParseUnsigned(Tail(t))
    ELSE ParseUnsigned(t)

\* the answers the judgment model gives in this model
Responses ==
    { <<"a", "b">>, <<"n", "a", "n">>, <<"5", ".", "9">>, <<"6">>,
      <<" ", "8", "\n">>, <<"1", "1">> }

(***************************************************************************)
(* The uploaded PDF files and their pages (a blank page is Blank).         *)
(***************************************************************************)
Pdfs ==
    { [file_name |-> "a.pdf", pages |-> <<ShortText, LongText>>,
       author |-> "A", title |-> "TA"],
      [file_name |-> "b.pdf", pages |-> <<Blank, OtherText>>,
       author |-> "unknown", title |-> "untitled"],
      [file_name |-> "c.pdf", pages |-> <<Blank>>,
       author |-> "unknown", title |-> "untitled"] }

Queries == {"q1", "q2"}

\* distance of the embedding of a page text to the embedding of a query
Distance(query, text) ==
    IF query = "q1" THEN Len(text) % 5 ELSE 5 - (Len(text) % 5)

\* f"{file_name}_page{page_num}"
PassageId(file_name, page_num) == <<file_name, "_page", ToString(page_num)>>

\* parse_pdf: one document per non-blank page, pages numbered from FirstPage
parse_pdf(pdf) ==
    LET F[i \in 0..Len(pdf.pages)] ==
            IF i = 0 THEN <<>>
            ELSE IF pdf.pages[i] # Blank
                 THEN Append(F[i - 1],
                        [text |-> pdf.pages[i],
                         metadata |-> [file_name |-> pdf.file_name,
                                       page_num |-> i + FirstPage - 1,
                                       author |-> pdf.author,
                                       title |-> pdf.title]])
                 ELSE F[i - 1]
    IN  F[Len(pdf.pages)]

StoreIds(collection) == {collection[i].id : i \in 1..Len(collection)}

\* collection.add: a record whose id is already stored is not inserted again
CollectionAdd(collection, documents) ==
    LET F[i \in 0..Len(documents)] ==
            IF i = 0 THEN collection
            ELSE LET d == documents[i]
                     id == PassageId(d.metadata.file_name, d.metadata.page_num)
                 IN  IF id \in StoreIds(F[i - 1]) THEN F[i - 1]
                     ELSE Append(F[i - 1],
                            [id |-> id, text |-> d.text, metadata |-> d.metadata])
    IN  F[Len(documents)]

\* add_pdf_to_vector_db: the returned pair and the collection afterwards
add_pdf_to_vector_db(pdf, collection) ==
    LET documents == parse_pdf(pdf) IN
    IF documents = <<>>
    THEN [ok |-> FALSE, msg |-> "parse_failed", n |-> 0, collection |-> collection]
    ELSE [ok |-> TRUE, msg |-> "added", n |-> Len(documents),
          collection |-> CollectionAdd(collection, documents)]

\* clear_vector_db: the returned pair and the collection afterwards (a store
\* that raises, the except branch of line 172, is not part of the model)
clear_vector_db(collection) ==
    IF collection # <<>>
    THEN [ok |-> TRUE, msg |-> "cleared", n |-> Len(collection), collection |-> <<>>]
    ELSE [ok |-> TRUE, msg |-> "already_empty", n |-> 0, collection |-> collection]

\* collection.query: the n_results nearest passages, nearest first
CoarseQuery(collection, query, n_results) ==
    LET n == Len(collection)
        d(i) == Distance(query, collection[i].text)
        rank(i) == Cardinality({j \in 1..n : d(j) < d(i) \/ (d(j) = d(i) /\ j < i)}) + 1
        at(r) == CHOOSE i \in 1..n : rank(i) = r
    IN  [r \in 1..Min(n_results, n) |->
            [text |-> collection[at(r)].text,
             metadata |-> collection[at(r)].metadata,
             distance |-> d(at(r))]]

(***************************************************************************)
(* Reranking (rag_utils.py:91-113).                                        *)
(***************************************************************************)
\* RerankOne with the threshold one point lower
RerankOne_lowThreshold(ranked_docs, doc, response) ==
    LET score == ParseFloat(response) IN
    IF score.kind = "num" /\ score.val >= (Threshold - 1) * Scale
    THEN Append(ranked_docs, [doc |-> doc, score |-> score.val])
    ELSE ranked_docs

\* one pass of the try block: the ranked pool after the response for doc
RerankOne(ranked_docs, doc, response) ==
    LET score == ParseFloat(response) IN
    IF score.kind = "num" /\ score.val >= Threshold * Scale
    THEN Append(ranked_docs, [doc |-> doc, score |-> score.val])
    ELSE ranked_docs

\* an ascending sort followed by a reversal: equal scores change places
RECURSIVE SortRanked_unstable(_)
SortRanked_unstable(ranked_docs) ==
    IF ranked_docs = <<>> THEN <<>>
    ELSE LET n == Len(ranked_docs)
             x == ranked_docs[n]
             sorted == SortRanked_unstable(SubSeq(ranked_docs, 1, n - 1))
             k == Cardinality({i \in 1..Len(sorted) : sorted[i].score > x.score})
         IN  SubSeq(sorted, 1, k) \o <<x>> \o SubSeq(sorted, k + 1, Len(sorted))

\* list.sort(key=score, reverse=True): stable, highest score first
RECURSIVE SortRanked(_)
SortRanked(ranked_docs) ==
    IF ranked_docs = <<>> THEN <<>>
    ELSE LET n == Len(ranked_docs)
             x == ranked_docs[n]
             sorted == SortRanked(SubSeq(ranked_docs, 1, n - 1))
             k == Cardinality({i \in 1..Len(sorted) : sorted[i].score >= x.score})
         IN  SubSeq(sorted, 1, k) \o <<x>> \o SubSeq(sorted, k + 1, Len(sorted))

\* SelectFinal with the slice one too long
SelectFinal_offByOne(ranked_docs, top_k_final) ==
    LET top == Take(ranked_docs, top_k_final + 1) IN
    [i \in 1..Len(top) |-> top[i].doc]

\* [item["doc"] for item in ranked_docs[:top_k_final]]
SelectFinal(ranked_docs, top_k_final) ==
    LET top == Take(ranked_docs, top_k_final) IN
    [i \in 1..Len(top) |-> top[i].doc]

(***************************************************************************)
(* Context completion (rag_utils.py:120-142).                              *)
(***************************************************************************)
Label(target_page) == <<"\n", "\n", "[", "ctx", ToString(target_page), "]", ":">>
Dots == <<".", ".", ".">>

Matches(all_docs, file_name, target_page) ==
    {i \in 1..Len(all_docs) :
        /\ all_docs[i].metadata.file_name = file_name
        /\ all_docs[i].metadata.page_num = target_page}

FirstOf(S) == CHOOSE i \in S : \A j \in S : i <= j

\* AppendNeighbour without the break: every matching passage is appended
AppendNeighbour_noBreak(doc, current_page, all_docs, offset) ==
    LET target_page == current_page + offset
        m == Matches(all_docs, doc.metadata.file_name, target_page)
        F[i \in 0..Len(all_docs)] ==
            IF i = 0 THEN doc.text
            ELSE IF i \in m
                 THEN F[i - 1] \o Label(target_page)
                        \o Take(all_docs[i].text, ExcerptLen) \o Dots
                 ELSE F[i - 1]
    IN  IF target_page < 1 THEN doc
        ELSE [doc EXCEPT !.text = F[Len(all_docs)]]

\* AppendNeighbour without the test  target_page < 1
AppendNeighbour_noGuard(doc, current_page, all_docs, offset) ==
    LET target_page == current_page + offset
        m == Matches(all_docs, doc.metadata.file_name, target_page)
    IN  IF m = {} THEN doc
        ELSE [doc EXCEPT !.text =
                @ \o Label(target_page) \o Take(all_docs[FirstOf(m)].text, ExcerptLen)
                  \o Dots]

\* the body of  for offset in [-1, 1]  for one offset
AppendNeighbour(doc, current_page, all_docs, offset) ==
    LET target_page == current_page + offset
        m == Matches(all_docs, doc.metadata.file_name, target_page)
    IN  IF target_page < 1 \/ m = {} THEN doc
        ELSE [doc EXCEPT !.text =
                @ \o Label(target_page) \o Take(all_docs[FirstOf(m)].text, ExcerptLen)
                  \o Dots]

CompleteDoc(doc, all_docs) ==
    LET current_page == doc.metadata.page_num IN
    AppendNeighbour(AppendNeighbour(doc, current_page, all_docs, 0 - 1),
                    current_page, all_docs, 1)

\* complete_adjacent_pages writing the enriched text back to the collection
complete_adjacent_pages_writeBack(selected_docs, collection) ==
    LET completed == [i \in 1..Len(selected_docs) |->
                        CompleteDoc(selected_docs[i], collection)]
        hit(k) == {i \in 1..Len(completed) :
                     completed[i].metadata = collection[k].metadata}
    IN  [completed |-> completed,
         collection |-> [k \in 1..Len(collection) |->
                           IF hit(k) = {} THEN collection[k]
                           ELSE [collection[k] EXCEPT
                                   !.text = completed[FirstOf(hit(k))].text]]]

\* complete_adjacent_pages: the returned list and the collection afterwards
complete_adjacent_pages(selected_docs, collection) ==
    [completed |-> [i \in 1..Len(selected_docs) |->
                        CompleteDoc(selected_docs[i], collection)],
     collection |-> collection]

(***************************************************************************)
(* A call of multi_stage_retrieval.  pc is the place the call has reached: *)
(* "rerank" inside the scoring loop, "complete" before line 116, "done"    *)
(* after the return, "raised" when an exception left the function.         *)
(* responses is the list of answers of the judgment model so far; the next *)
(* candidate to score is coarse_docs[Len(responses) + 1].                  *)
(***************************************************************************)
CallIds == {1, 2}

IdleCall ==
    [pc |-> "idle", query |-> "", top_k_coarse |-> 0, top_k_final |-> 0,
     coarse_docs |-> <<>>, responses |-> <<>>, ranked_docs |-> <<>>,
     final_docs |-> <<>>, result |-> <<>>, judge_errors |-> 0]

\* rag_utils.py:76-88
StartCall(collection, query, top_k_coarse, top_k_final) ==
    [IdleCall EXCEPT !.pc = "rerank", !.query = query,
                     !.top_k_coarse = top_k_coarse, !.top_k_final = top_k_final,
                     !.coarse_docs = CoarseQuery(collection, query, top_k_coarse)]

\* JudgeAnswer without the try: a malformed answer leaves the function
JudgeAnswer_noTry(call, response) ==
    IF ParseFloat(response).kind = "error"
    THEN [call EXCEPT !.pc = "raised"]
    ELSE [call EXCEPT !.responses = Append(@, response),
                      !.ranked_docs =
                         RerankOne(@, call.coarse_docs[Len(call.responses) + 1],
                                   response)]

\* rag_utils.py:99-109 when ollama.generate returns response
JudgeAnswer(call, response) ==
    [call EXCEPT !.responses = Append(@, response),
                 !.ranked_docs =
                    RerankOne(@, call.coarse_docs[Len(call.responses) + 1], response)]

\* JudgeError with the call inside the try: the candidate is skipped
JudgeError_swallowed(call) ==
    [call EXCEPT !.judge_errors = @ + 1, !.responses = Append(@, <<>>)]

\* rag_utils.py:99 when ollama.generate raises: the call is outside the try
JudgeError(call) ==
    [call EXCEPT !.pc = "raised", !.judge_errors = @ + 1]

\* rag_utils.py:112-113
SortAndSelect(call) ==
    LET sorted == SortRanked(call.ranked_docs) IN
    [call EXCEPT !.pc = "complete", !.ranked_docs = sorted,
                 !.final_docs = SelectFinal(sorted, call.top_k_final)]

Scoring(c) ==
    /\ calls[c].pc = "rerank"
    /\ Len(calls[c].responses) < Len(calls[c].coarse_docs)

(***************************************************************************)
(* Actions.                                                                *)
(***************************************************************************)
AddPdf(pdf) ==
    LET r == add_pdf_to_vector_db(pdf, store) IN
    /\ store' = r.collection
    /\ status' = [ok |-> r.ok, msg |-> r.msg, n |-> r.n]
    /\ UNCHANGED calls

ClearVectorDb ==
    LET r == clear_vector_db(store) IN
    /\ store' = r.collection
    /\ status' = [ok |-> r.ok, msg |-> r.msg, n |-> r.n]
    /\ UNCHANGED calls

Retrieve(c, query, top_k_coarse, top_k_final) ==
    /\ calls[c].pc = "idle"
    /\ calls' = [calls EXCEPT ![c] = StartCall(store, query, top_k_coarse, top_k_final)]
    /\ UNCHANGED <<store, status>>

Judge(c, response) ==
    /\ Scoring(c)
    /\ calls' = [calls EXCEPT ![c] = JudgeAnswer(@, response)]
    /\ UNCHANGED <<store, status>>

JudgeRaises(c) ==
    /\ Scoring(c)
    /\ calls' = [calls EXCEPT ![c] = JudgeError(@)]
    /\ UNCHANGED <<store, status>>

Select(c) ==
    /\ calls[c].pc = "rerank"
    /\ Len(calls[c].responses) = Len(calls[c].coarse_docs)
    /\ calls' = [calls EXCEPT ![c] = SortAndSelect(@)]
    /\ UNCHANGED <<store, status>>

Complete(c) ==
    /\ calls[c].pc = "complete"
    /\ LET r == complete_adjacent_pages(calls[c].final_docs, store) IN
        /\ calls' = [calls EXCEPT ![c].pc = "done", ![c].result = r.completed]
        /\ store' = r.collection
    /\ UNCHANGED status

Return(c) ==
    /\ calls[c].pc \in {"done", "raised"}
    /\ calls' = [calls EXCEPT ![c] = IdleCall]
    /\ UNCHANGED <<store, status>>

NoStatus == [ok |-> TRUE, msg |-> "none", n |-> 0]

(***************************************************************************)
(* Spec: one session ingesting, clearing and retrieving.                   *)
(***************************************************************************)
Init ==
    /\ store = <<>>
    /\ calls = [c \in CallIds |-> IdleCall]
    /\ status = NoStatus

Next ==
    \/ \E pdf \in Pdfs : AddPdf(pdf)
    \/ ClearVectorDb
    \/ \E q \in Queries, kc \in 1..MaxCoarse, kf \in 0..MaxFinal : Retrieve(1, q, kc, kf)
    \/ \E r \in Responses : Judge(1, r)
    \/ JudgeRaises(1)
    \/ Select(1)
    \/ Complete(1)
    \/ Return(1)

Spec == Init /\ [][Next]_vars

(***************************************************************************)
(* SpecConc: two sessions retrieving from the same store, which nobody     *)
(* ingests into or clears meanwhile.  The calls interleave at their calls  *)
(* of the store and of the judgment model.                                 *)
(***************************************************************************)
StoreOf(pdf) == add_pdf_to_vector_db(pdf, <<>>).collection

ConcStores == {add_pdf_to_vector_db(q, StoreOf(p)).collection : p \in Pdfs, q \in Pdfs}

ConcResponses == { <<"a", "b">>, <<"6">>, <<" ", "8", "\n">> }

InitConc ==
    /\ store \in ConcStores
    /\ calls = [c \in CallIds |-> IdleCall]
    /\ status = NoStatus

NextConc ==
    \E c \in CallIds :
        \/ \E q \in Queries : Retrieve(c, q, MaxCoarse, MaxFinal)
        \/ \E r \in ConcResponses : Judge(c, r)
        \/ Select(c)
        \/ Complete(c)
        \/ Return(c)

SpecConc == InitConc /\ [][NextConc]_vars

(***************************************************************************)
(* SpecCompleter: complete_adjacent_pages applied to any finalist list and *)
(* any snapshot, also one with a page 0 or with a page stored twice.       *)
(***************************************************************************)
MaxPage == 3        \* largest page number of a passage in a snapshot

Files == {"a.pdf", "b.pdf"}

SeqsUpTo(S, n) == UNION {[1..k -> S] : k \in 0..n}

Meta(f, p) == [file_name |-> f, page_num |-> p, author |-> "unknown", title |-> "untitled"]

\* the passages a snapshot is made of: any page of either file, page 0 too
SnapPassages ==
    {[id |-> PassageId(f, p), text |-> t, metadata |-> Meta(f, p)] :
        f \in {"a.pdf"}, p \in 0..MaxPage, t \in {OtherText, LongText}}
    \cup {[id |-> PassageId(f, p), text |-> OtherText, metadata |-> Meta(f, p)] :
        f \in Files \ {"a.pdf"}, p \in 0..MaxPage}

\* the finalists: pages of a.pdf as the coarse query returned them
SelDocs ==
    {[text |-> ShortText, metadata |-> Meta("a.pdf", p), distance |-> 1] :
        p \in 1..(MaxPage - 1)}

InitCompleter ==
    /\ store \in SeqsUpTo(SnapPassages, MaxSnap)
    /\ \E sel \in SeqsUpTo(SelDocs, MaxSel) :
         calls = [c \in CallIds |->
                    IF c = 1
                    THEN [IdleCall EXCEPT !.pc = "complete", !.final_docs = sel,
                                          !.top_k_final = Len(sel)]
                    ELSE IdleCall]
    /\ status = NoStatus

NextCompleter == Complete(1)

SpecCompleter == InitCompleter /\ [][NextCompleter]_vars

(***************************************************************************)
(* Properties.                                                             *)
(***************************************************************************)
Done(c) == calls[c].pc = "done"

\* the parsed answer given for the coarse candidate a returned passage came from
ScoreOf(call, doc) ==
    LET j == CHOOSE j \in 1..Len(call.coarse_docs) :
                call.coarse_docs[j].metadata = doc.metadata
    IN  ParseFloat(call.responses[j])

\* the coarse candidates whose answer parsed as a number of at least 6
Qualifying(call) ==
    {j \in 1..Len(call.responses) :
        LET s == ParseFloat(call.responses[j]) IN s.kind = "num" /\ s.val >= 6 * Scale}

Unparsable(call) ==
    {j \in 1..Len(call.responses) : ParseFloat(call.responses[j]).kind = "error"}

\* C1: no passage of a returned list was given a parsed relevance score
\* below 6 (an answer that is not a number at all never gets a passage in).
C1_NoLowScore ==
    \A c \in CallIds :
        Done(c) =>
            \A i \in 1..Len(calls[c].result) :
                /\ \E j \in 1..Len(calls[c].coarse_docs) :
                      calls[c].coarse_docs[j].metadata = calls[c].result[i].metadata
                /\ LET s == ScoreOf(calls[c], calls[c].result[i]) IN
                      s.kind = "num" /\ ~(s.val < 6 * Scale)

\* a returned list next to a candidate that was scored below 6 and left out
C1_Witness ==
    \E c \in CallIds :
        /\ Done(c)
        /\ calls[c].result # <<>>
        /\ \E j \in 1..Len(calls[c].responses) :
              LET s == ParseFloat(calls[c].responses[j]) IN
                 s.kind = "num" /\ s.val < 6 * Scale /\ s.val > 5 * Scale

\* C2 as stated: a failing judgment-model call does not abort the batch, the
\* call goes on scoring and returns a result.
C2_Original ==
    \A c \in CallIds :
        calls[c].judge_errors > 0 => calls[c].pc # "raised"

\* C2 amended: a failing judgment-model call leaves multi_stage_retrieval with
\* the exception: the candidate it failed for and the later ones are not
\* scored and no result is returned.
C2_JudgeErrorPropagates ==
    \A c \in CallIds :
        calls[c].judge_errors > 0 =>
            /\ calls[c].pc = "raised"
            /\ calls[c].judge_errors = 1
            /\ Len(calls[c].responses) < Len(calls[c].coarse_docs)
            /\ calls[c].result = <<>>
            /\ calls[c].final_docs = <<>>

\* a call that failed at its second or third candidate, one admitted before
C2_Witness ==
    \E c \in CallIds :
        /\ calls[c].pc = "raised"
        /\ calls[c].judge_errors > 0
        /\ calls[c].ranked_docs # <<>>
        /\ Len(calls[c].responses) + 1 < Len(calls[c].coarse_docs)

\* the subsequence of s at the indices not in Drop
Without(s, Drop) ==
    LET F[i \in 0..Len(s)] ==
            IF i = 0 THEN <<>>
            ELSE IF i \in Drop THEN F[i - 1] ELSE Append(F[i - 1], s[i])
    IN  F[Len(s)]

\* the finalists of a batch of candidates with their answers
FinalistsOf(docs, responses, top_k_final) ==
    LET F[i \in 0..Len(docs)] ==
            IF i = 0 THEN <<>> ELSE RerankOne(F[i - 1], docs[i], responses[i])
    IN  SelectFinal(SortRanked(F[Len(docs)]), top_k_final)

\* C3: a candidate whose answer does not parse is dropped and changes nothing
\* for the others: the finalists are those of the batch without it; no
\* malformed answer makes the call raise, and when no answer parses the call
\* returns the empty list.
C3_UnparsableDropped ==
    \A c \in CallIds :
        /\ calls[c].pc = "raised" => calls[c].judge_errors > 0
        /\ calls[c].pc \in {"complete", "done"} =>
              /\ Len(calls[c].responses) = Len(calls[c].coarse_docs)
              /\ calls[c].final_docs =
                    FinalistsOf(Without(calls[c].coarse_docs, Unparsable(calls[c])),
                                Without(calls[c].responses, Unparsable(calls[c])),
                                calls[c].top_k_final)
        /\ (Done(c) /\ Unparsable(calls[c]) = 1..Len(calls[c].responses)) =>
              calls[c].result = <<>>

\* a returned list with a passage in it although the first answer was malformed
C3_Witness ==
    \E c \in CallIds :
        /\ Done(c)
        /\ 1 \in Unparsable(calls[c])
        /\ Len(calls[c].coarse_docs) >= 2
        /\ calls[c].result # <<>>

\* C4: the returned list has at most top_k_final entries (top_k_final >= 0)
\* and the scores of its entries never increase along the list.
C4_BoundedAndSorted ==
    \A c \in CallIds :
        Done(c) =>
            /\ Len(calls[c].result) <= calls[c].top_k_final
            /\ \A i \in 1..Len(calls[c].result) : \A j \in 1..Len(calls[c].result) :
                  i < j => ScoreOf(calls[c], calls[c].result[i]).val
                             >= ScoreOf(calls[c], calls[c].result[j]).val

\* a full list of two passages with different scores, a third one cut off
C4_Witness ==
    \E c \in CallIds :
        /\ Done(c)
        /\ calls[c].top_k_final = 2
        /\ Len(calls[c].result) = 2
        /\ Len(calls[c].ranked_docs) > 2
        /\ ScoreOf(calls[c], calls[c].result[1]).val
             > ScoreOf(calls[c], calls[c].result[2]).val

\* the place of qualifying candidate j: after every higher score and after
\* every equal score that came earlier in the coarse order
RankOf(call, j) ==
    Cardinality({i \in Qualifying(call) :
        \/ ParseFloat(call.responses[i]).val > ParseFloat(call.responses[j]).val
        \/ /\ ParseFloat(call.responses[i]).val = ParseFloat(call.responses[j]).val
           /\ i < j}) + 1

\* C5: the finalists are exactly the first top_k_final of the candidates with
\* score >= 6 in descending score order, equal scores in coarse order, and
\* the returned list keeps that order.
C5_StableTopK ==
    \A c \in CallIds :
        calls[c].pc \in {"complete", "done"} =>
            LET call == calls[c]
                n == Min(call.top_k_final, Cardinality(Qualifying(call)))
            IN  /\ Len(call.final_docs) = n
                /\ \A r \in 1..n :
                      \E j \in Qualifying(call) :
                          /\ RankOf(call, j) = r
                          /\ call.final_docs[r] = call.coarse_docs[j]
                /\ Done(c) =>
                      /\ Len(call.result) = n
                      /\ \A r \in 1..n :
                            call.result[r].metadata = call.final_docs[r].metadata

\* three qualifying candidates, the first two with the same score and the
\* third with a higher one, and room for two
C5_Witness ==
    \E c \in CallIds :
        /\ Done(c)
        /\ calls[c].top_k_final = 2
        /\ Qualifying(calls[c]) = {1, 2, 3}
        /\ ParseFloat(calls[c].responses[1]).val = ParseFloat(calls[c].responses[2]).val
        /\ ParseFloat(calls[c].responses[3]).val > ParseFloat(calls[c].responses[1]).val

\* C6: every candidate in the ranked pool has a score from 0 to 10.
C6_ScoreInRange ==
    \A c \in CallIds :
        \A i \in 1..Len(calls[c].ranked_docs) :
            /\ calls[c].ranked_docs[i].score >= 0
            /\ calls[c].ranked_docs[i].score <= 10 * Scale

\* the stored passages of the file of doc whose page is page_num(doc) + offset
NeighboursOf(doc, offset) ==
    {k \in 1..Len(store) :
        /\ store[k].metadata.file_name = doc.metadata.file_name
        /\ store[k].metadata.page_num = doc.metadata.page_num + offset}

\* the labelled excerpt of stored passage k: its first 200 characters
ExcerptOf(k) ==
    Label(store[k].metadata.page_num)
        \o SubSeq(store[k].text, 1, Min(200, Len(store[k].text))) \o Dots

\* what the claim appends for an offset: the excerpt of the first match, if any
ExpectedAnyPage(doc, offset) ==
    IF NeighboursOf(doc, offset) = {} THEN <<>>
    ELSE ExcerptOf(FirstOf(NeighboursOf(doc, offset)))

\* the same for target pages from 1 on only
ExpectedFromPage1(doc, offset) ==
    IF doc.metadata.page_num + offset < 1 THEN <<>> ELSE ExpectedAnyPage(doc, offset)

C8_NoPageZero ==
    Done(1) =>
        \A i \in 1..Len(calls[1].final_docs) :
            LET doc == calls[1].final_docs[i] IN
            doc.metadata.page_num = 1 =>
                /\ \A k \in 1..(Len(calls[1].result[i].text) - Len(Label(0)) + 1) :
                      SubSeq(calls[1].result[i].text, k, k + Len(Label(0)) - 1) # Label(0)
                /\ calls[1].result[i].text = doc.text \o ExpectedAnyPage(doc, 1)

\* a finalist of page 1 whose file has a page 0 and a page 2 in the snapshot
C8_Witness ==
    /\ Done(1)
    /\ \E i \in 1..Len(calls[1].final_docs) :
          LET doc == calls[1].final_docs[i] IN
          /\ doc.metadata.page_num = 1
          /\ NeighboursOf(doc, 0 - 1) # {}
          /\ NeighboursOf(doc, 1) # {}

\* C9: no step of a retrieval call changes the store: its ids, texts and
\* metadata are the same after the step.
C9_StoreUnchanged ==
    [][calls' # calls => store' = store]_vars

\* a returned passage enriched with an excerpt while the store keeps the
\* text it had
C9_Witness ==
    \E c \in CallIds :
        /\ Done(c)
        /\ \E i \in 1..Len(calls[c].result) : \E k \in 1..Len(store) :
              /\ store[k].metadata = calls[c].result[i].metadata
              /\ store[k].text = calls[c].final_docs[i].text
              /\ Len(calls[c].result[i].text) > Len(store[k].text)

\* the list a call returns when it runs alone on a collection and gets the
\* given answers
RunAlone(collection, query, top_k_coarse, top_k_final, responses) ==
    LET coarse == CoarseQuery(collection, query, top_k_coarse)
        final == FinalistsOf(coarse, responses, top_k_final)
    IN  complete_adjacent_pages(final, collection).completed

\* C10: whatever the interleaving of two calls, a call returns what it
\* returns alone on the store with the answers it got; no enrichment of the
\* other call shows in it.
C10_SameAsAlone ==
    \A c \in CallIds :
        Done(c) =>
            calls[c].result =
                RunAlone(store, calls[c].query, calls[c].top_k_coarse,
                         calls[c].top_k_final, calls[c].responses)

\* both calls returned, each a passage the other one's passage took its
\* excerpt from
C10_Witness ==
    /\ Done(1) /\ Done(2)
    /\ calls[1].query # calls[2].query
    /\ \E i \in 1..Len(calls[1].result) : \E j \in 1..Len(calls[2].result) :
          /\ calls[1].result[i].metadata.file_name = calls[2].result[j].metadata.file_name
          /\ calls[1].result[i].metadata.page_num + 1 = calls[2].result[j].metadata.page_num
          /\ calls[1].result[i].text # calls[1].final_docs[i].text
          /\ calls[2].result[j].text # calls[2].final_docs[j].text

====
